---- MODULE Spec2Model ----
(***************************************************************************)
(* Tool-provider orchestration of the Google Calendar agent backend.       *)
(*                                                                         *)
(*   SpecApp   backend/app.py: the module-level tool and agent caches      *)
(*             (get_tools, get_agent) used by concurrent coroutines of     *)
(*             one event loop, and the subprocess-per-query path           *)
(*             (run_calendar_agent_sync -> calendar_agent.run_query_async  *)
(*             -> init_tools) used by /query and /health.                  *)
(*   SpecMain  backend/main.py: the launcher that probes, starts, waits    *)
(*             for and shuts down the MCP server process.                  *)
(*   SpecLoop  one query's event stream (agent.astream) as its three       *)
(*             consumers fold it: execute_calendar_query under             *)
(*             /workout-schedule, run_query_async of the subprocess, and   *)
(*             generate_response of /query/stream; then the structured     *)
(*             extraction each of them makes.                              *)
(*   SpecAgent the same loops driven by a ReAct agent that may go on       *)
(*             requesting tool calls.                                      *)
(*   SpecParse what the subprocess prints (run_query_async) and how        *)
(*             run_calendar_agent_sync reads it back for /workout-time,    *)
(*             /workout-time/tomorrow, /query and /health.                 *)
(*   SpecFilter init_tools' exclusion filter on a loaded tool list, and    *)
(*             the tool check of /query/stream.                            *)
(*   SpecQuiz  message_app.py's determine_user_type and /generate-message  *)
(*             beside quiz.py's ask_user_questions.                        *)
(*                                                                         *)
(* Japanese and emoji literals of the source are written in ASCII here;    *)
(* each definition names the literal it stands for.                        *)
(***************************************************************************)
EXTENDS Integers, Sequences, FiniteSets, TLC

(***************************************************************************)
(* Bounds of the model.                                                    *)
(***************************************************************************)
\* coroutines of the application's event loop that call get_tools/get_agent
NumCallers == 2
\* /query and /health requests served through run_calendar_agent_sync
MaxQueries == 2
\* tools one provider advertises in one list_tools answer
MaxTools == 1
\* events agent.astream yields for one query
MaxEvents == 2
\* lines of one message content or of one reason
MaxTextLines == 2
\* tools client.get_tools() returns in all
MaxLoaded == 3
\* seconds wait_until_ready polls before it gives up (30 in the source)
ReadyTimeout == 2
\* clock ticks in one second: the grain in which the launcher's time is told
TicksPerSecond == 2

(***************************************************************************)
(* Values.                                                                 *)
(***************************************************************************)
\* Python's None and a present value, as sequences of length 0 and 1.
None == << >>
Some(x) == << x >>
Val(o) == o[1]

\* The two connections of the MultiServerMCPClient, in dict order.
Providers == << "calendar", "datetime" >>
ProviderSet == { Providers[i] : i \in 1..Len(Providers) }

\* Tool names a provider may advertise: the three names init_tools excludes
\* and one it keeps.
ToolNames ==
  { "list-events", "update-event", "get-current-time", "get-current-timezone" }

\* Sequences over S of length at most n.
SeqUpTo(S, n) == UNION { [1..k -> S] : k \in 0..n }

\* One provider's answer to list_tools: tool descriptors carrying their name
\* and the connection they came from.
ToolsOf(p, names) == [ i \in 1..Len(names) |-> [name |-> names[i], server |-> p] ]
Answers(p) == { ToolsOf(p, ns) : ns \in SeqUpTo(ToolNames, MaxTools) }

\* client.get_tools(): the providers' answers concatenated in connection order.
client_get_tools(answers) == answers[Providers[1]] \o answers[Providers[2]]

\* excluded_tools of init_tools.
excluded_tools == { "update-event", "get-current-time", "get-current-timezone" }

\* A filter that lost the last name of the exclusion list.
filtered_tools_short(all_tools) ==
  SelectSeq(all_tools, LAMBDA t : t.name \notin { "update-event", "get-current-time" })

\* filtered_tools of init_tools: the list comprehension over all_tools.
filtered_tools(all_tools) ==
  SelectSeq(all_tools, LAMBDA t : t.name \notin excluded_tools)

\* create_react_agent(model=tool_use_llm, tools=tools): the agent is known
\* here by the tool list it was built from.
create_react_agent(tools) == [tools |-> tools]

Callers == 1..NumCallers

VARIABLES
  \* ---- backend/app.py, one application process ----
  tools_cache,    \* _tools_cache: None or Some(tool list)
  agent_cache,    \* _agent_cache: None or Some(agent)
  pc,             \* per coroutine: "idle", "init_tools", "returned", "raised"
  kind,           \* per coroutine: "none", "get_tools" or "get_agent"
  initCalls,      \* init_tools invocations made by get_tools in this process
  initFailures,   \* of which raised
  totalInits,     \* init_tools invocations, get_tools' and the subprocesses'
  spawns,         \* per provider: stdio sessions opened (process started, handshake)
  queries,        \* run_calendar_agent_sync calls served
  subTools,       \* tools the last subprocess built its agent from, or None
  subRc,          \* return code of the last subprocess (-1: none yet)
  advertised,     \* per provider: the tools its program advertises
  seenFailures,   \* per coroutine: initFailures when it made its call (-1: idle)
  \* ---- backend/main.py, one run of the launcher ----
  mpc,            \* position of main
  serverUp,       \* an MCP server answers 200 on MCP_BASE_URL
  external,       \* an MCP server not started by this run exists
  extSignals,     \* signals this run sent to that external server
  repoExists,     \* REPO_DIR exists
  npmFound,       \* NODE_CMD[0] is on the PATH
  ignoresTerm,    \* the started process ignores SIGTERM
  proc,           \* None or Some("child"): main's proc
  procState,      \* "none", "running" or "exited": the child process
  spawnCalls,     \* subprocess.Popen calls
  terminates,     \* proc.terminate() calls
  waits,          \* proc.wait(timeout=5) calls
  kills,          \* proc.kill() calls
  firstProbe,     \* "none", "up" or "down": result of is_server_running
  elapsed,        \* ticks since wait_until_ready took its start time
  ready,          \* "none", "true" or "false": result of wait_until_ready
  queryRan,       \* run_query calls
  queryRaised,    \* run_query raised
  cleanups,       \* times the clean-up of the finally block shut proc down
  waitResult,     \* "none", "exited" or "expired": outcome of proc.wait
  exitStatus,     \* -1 while running, else the exit status of main
  \* ---- one query's event stream and its consumers ----
  request,        \* request.query, a sequence of words
  lpc,            \* "idle", "loop", "ended" or "raised": agent.astream
  phase,          \* "START", "THINKING", "TOOL_CALL" or "DONE": the ReAct agent
  events,         \* the events astream has yielded so far
  final_response, \* execute_calendar_query: final_response
  structured_result, \* execute_calendar_query / get_workout_schedule
  epc,            \* "idle", "loop", "extract", "retry", "responded", "raised"
  extractCalls,   \* structured_llm.ainvoke calls of execute_calendar_query
  retryCalls,     \* structured_llm.ainvoke calls of get_workout_schedule
  wsStatus,       \* HTTP status of /workout-schedule (0: no response yet)
  wsBody,         \* None or Some(slot): body of a 200 response
  cli_final_response, \* run_query_async: final_response (None or Some(text))
  cpc,            \* "idle", "loop", "extract", "exited" or "raised"
  cliExtractCalls,\* structured_llm.ainvoke calls of run_query_async
  cliSlot,        \* None or Some(slot): the slot run_query_async printed
  chunks,         \* chunks generate_response has yielded
  spc,            \* "idle", "open" or "closed": the generator
  \* ---- one request served through the subprocess ----
  endpoint,       \* the endpoint asked
  cliMessage,     \* None or Some(message): the agent's final message
  llmAnswer,      \* None (raises) or Some(slot): what structured_llm will do
  stdout,         \* result.stdout, as lines
  returncode,     \* result.returncode (-1: not run yet)
  sync_result,    \* structured_result returned by run_calendar_agent_sync
  answer,         \* None or Some(response body)
  ppc,            \* "idle", "run", "ran" or "answered"
  \* ---- init_tools on one loaded list, and /query/stream ----
  loaded,         \* all_tools: what client.get_tools() returned
  filterRuns,     \* what each run of init_tools returned
  streamStatus,   \* HTTP status of /query/stream (0: none yet, -1: idle)
  agentRuns,      \* agent runs generate_response started
  \* ---- message_app.py and quiz.py ----
  mreq,           \* None or Some(MessageRequest)
  qin,            \* None or Some(the three answers typed into quiz.py)
  user_type,      \* None or Some(type): user_type of generate_user_message
  quiz_type,      \* None or Some(type): what ask_user_questions returned
  msgStatus,      \* HTTP status of /generate-message (0: none yet, -1: idle)
  msgDetail       \* detail of the response

appVars ==
  << tools_cache, agent_cache, pc, kind, initCalls, initFailures,
     totalInits, spawns, queries, subTools, subRc, advertised,
     seenFailures >>

mainVars ==
  << mpc, serverUp, external, extSignals, repoExists, npmFound, ignoresTerm,
     proc, procState, spawnCalls, terminates, waits, kills, firstProbe,
     elapsed, ready, queryRan, queryRaised, cleanups, waitResult, exitStatus >>

loopVars ==
  << request, lpc, phase, events, final_response, structured_result, epc,
     extractCalls, retryCalls, wsStatus, wsBody, cli_final_response, cpc,
     cliExtractCalls, cliSlot, chunks, spc >>

\* What the actions of one program leave alone: the other programs' state.
parseVars ==
  << endpoint, cliMessage, llmAnswer, stdout, returncode, sync_result,
     answer, ppc >>

filterVars == << loaded, filterRuns, streamStatus, agentRuns >>

quizVars == << mreq, qin, user_type, quiz_type, msgStatus, msgDetail >>

notAppVars == << mainVars, loopVars, parseVars, filterVars, quizVars >>
notMainVars == << appVars, loopVars, parseVars, filterVars, quizVars >>
notLoopVars == << appVars, mainVars, parseVars, filterVars, quizVars >>
notParseVars == << appVars, mainVars, loopVars, filterVars, quizVars >>
notFilterVars == << appVars, mainVars, loopVars, parseVars, quizVars >>
notQuizVars == << appVars, mainVars, loopVars, parseVars, filterVars >>

vars == << appVars, mainVars, loopVars, parseVars, filterVars, quizVars >>

(***************************************************************************)
(* backend/app.py                                                          *)
(***************************************************************************)
\* The module globals of app.py after import, no request served yet.
AppStart ==
  /\ tools_cache = None
  /\ agent_cache = None
  /\ pc = [c \in Callers |-> "idle"]
  /\ kind = [c \in Callers |-> "none"]
  /\ initCalls = 0
  /\ initFailures = 0
  /\ totalInits = 0
  /\ spawns = [p \in ProviderSet |-> 0]
  /\ queries = 0
  /\ subTools = None
  /\ subRc = -1
  /\ seenFailures = [c \in Callers |-> -1]

\* The providers advertise any tools for the length of one run.
AppInit ==
  /\ AppStart
  /\ advertised \in [ProviderSet -> UNION { Answers(p) : p \in ProviderSet }]
  /\ \A p \in ProviderSet : advertised[p] \in Answers(p)

\* The application process is no part of a run of the launcher.
AppIdle ==
  /\ AppStart
  /\ advertised = [p \in ProviderSet |-> << >>]

\* What init_tools returns when no provider fails: the tools the providers
\* advertise, loaded through the client and filtered.
init_tools == filtered_tools(client_get_tools(advertised))

\* client.get_tools() opens one stdio session per connection: each provider
\* process is started when init_tools is entered.
StartProviders == [p \in ProviderSet |-> spawns[p] + 1]

\* Coroutines are numbered in the order of their calls.
Earlier(c) == \A d \in Callers : d < c => pc[d] # "idle"

\* get_tools() called directly (query_calendar_stream) up to its first
\* suspension: a cache hit returns _tools_cache at once, a miss enters
\* init_tools and suspends in client.get_tools().
GetTools(c) ==
  /\ pc[c] = "idle"
  /\ Earlier(c)
  /\ kind' = [kind EXCEPT ![c] = "get_tools"]
  /\ seenFailures' = [seenFailures EXCEPT ![c] = initFailures]
  /\ IF tools_cache # None
       THEN /\ pc' = [pc EXCEPT ![c] = "returned"]
            /\ UNCHANGED << initCalls, totalInits, spawns >>
       ELSE /\ pc' = [pc EXCEPT ![c] = "init_tools"]
            /\ initCalls' = initCalls + 1
            /\ totalInits' = totalInits + 1
            /\ spawns' = StartProviders
  /\ UNCHANGED << tools_cache, agent_cache, initFailures, queries, subTools,
                  subRc, advertised >>
  /\ UNCHANGED notAppVars

\* get_agent() (execute_calendar_query, generate_response) up to its first
\* suspension: an agent-cache hit returns the agent; otherwise get_tools()
\* runs inline, and on a tool-cache hit the agent is built and cached in
\* the same step.
GetAgent(c) ==
  /\ pc[c] = "idle"
  /\ Earlier(c)
  /\ kind' = [kind EXCEPT ![c] = "get_agent"]
  /\ seenFailures' = [seenFailures EXCEPT ![c] = initFailures]
  /\ IF agent_cache # None
       THEN /\ pc' = [pc EXCEPT ![c] = "returned"]
            /\ UNCHANGED << agent_cache, initCalls, totalInits, spawns >>
       ELSE IF tools_cache # None
         THEN /\ agent_cache' = Some(create_react_agent(Val(tools_cache)))
              /\ pc' = [pc EXCEPT ![c] = "returned"]
              /\ UNCHANGED << initCalls, totalInits, spawns >>
         ELSE /\ pc' = [pc EXCEPT ![c] = "init_tools"]
              /\ initCalls' = initCalls + 1
              /\ totalInits' = totalInits + 1
              /\ spawns' = StartProviders
              /\ UNCHANGED agent_cache
  /\ UNCHANGED << tools_cache, initFailures, queries, subTools, subRc, advertised >>
  /\ UNCHANGED notAppVars

\* A failure handler that caches an empty list before re-raising.
InitToolsRaisesCaching(c) ==
  /\ pc[c] = "init_tools"
  /\ pc' = [pc EXCEPT ![c] = "raised"]
  /\ initFailures' = initFailures + 1
  /\ tools_cache' = Some(<< >>)
  /\ UNCHANGED << agent_cache, kind, initCalls, totalInits, spawns, queries,
                  subTools, subRc, advertised, seenFailures >>
  /\ UNCHANGED notAppVars

\* client.get_tools() raises in the suspended init_tools of coroutine c (a
\* provider failed to start, to handshake or to list): get_tools logs and
\* re-raises before the assignment, get_agent propagates before its own.
InitToolsRaises(c) ==
  /\ pc[c] = "init_tools"
  /\ pc' = [pc EXCEPT ![c] = "raised"]
  /\ initFailures' = initFailures + 1
  /\ UNCHANGED << tools_cache, agent_cache, kind, initCalls, totalInits,
                  spawns, queries, subTools, subRc, advertised, seenFailures >>
  /\ UNCHANGED notAppVars

\* client.get_tools() answers in the suspended init_tools of coroutine c:
\* the list is filtered, get_tools assigns _tools_cache and returns it, and
\* a get_agent caller builds the agent and assigns _agent_cache.
InitToolsReturns(c) ==
  /\ pc[c] = "init_tools"
  /\ LET tools == init_tools IN
       /\ tools_cache' = Some(tools)
       /\ agent_cache' = IF kind[c] = "get_agent"
                           THEN Some(create_react_agent(tools))
                           ELSE agent_cache
  /\ pc' = [pc EXCEPT ![c] = "returned"]
  /\ UNCHANGED << kind, initCalls, initFailures, totalInits, spawns, queries,
                  subTools, subRc, advertised, seenFailures >>
  /\ UNCHANGED notAppVars

\* run_calendar_agent_sync(query), called by /query and /health:
\* subprocess.run blocks the event loop until calendar_agent.py has ended.
\* The child runs run_query_async, which calls init_tools itself (new
\* provider processes, no cache) and builds an agent from the result; an
\* exception of init_tools ends the child with a non-zero return code.
RunCalendarAgentSync ==
  /\ queries < MaxQueries
  /\ queries' = queries + 1
  /\ totalInits' = totalInits + 1
  /\ spawns' = StartProviders
  /\ \/ /\ subTools' = Some(create_react_agent(init_tools).tools)
        /\ subRc' = 0
     \/ /\ subTools' = None
        /\ subRc' = 1
  /\ UNCHANGED << tools_cache, agent_cache, pc, kind, initCalls, initFailures,
                  advertised, seenFailures >>
  /\ UNCHANGED notAppVars

AppNext ==
  \/ \E c \in Callers : GetTools(c)
  \/ \E c \in Callers : GetAgent(c)
  \/ \E c \in Callers : InitToolsReturns(c)
  \/ \E c \in Callers : InitToolsRaises(c)
  \/ RunCalendarAgentSync

(***************************************************************************)
(* Properties of the tool registry (SpecApp).                              *)
(***************************************************************************)
\* Every tool list the application holds: the cached list get_tools
\* returns, the list the cached agent was built from, and the list the
\* latest subprocess built its agent from.
HeldToolLists ==
  { Val(o) : o \in { x \in { tools_cache, subTools } : x # None } }
    \cup { Val(a).tools : a \in { x \in { agent_cache } : x # None } }

NamesOf(tools) == { tools[i].name : i \in 1..Len(tools) }

\* C1: when several coroutines call get_tools()/get_agent() before the first
\* initialisation has completed (none has failed, no subprocess query has
\* run), init_tools is run at most once and each provider gets at most one
\* session: later callers wait for the initialisation in flight.
C1_InitOnce ==
  (initFailures = 0 /\ queries = 0) =>
    /\ initCalls <= 1
    /\ \A p \in ProviderSet : spawns[p] <= 1

\* C2: no tool list returned by init_tools, cached by get_tools, or used to
\* build an agent (get_agent, run_query_async) contains a tool named
\* update-event, get-current-time or get-current-timezone.
C2_NoExcludedTools ==
  \A tools \in HeldToolLists :
    NamesOf(tools) \cap { "update-event", "get-current-time", "get-current-timezone" } = {}

\* C2 witness: the only initialisation so far loaded two tools, one of them
\* excluded, and get_agent cached the remaining one and the agent.
C2_Witness ==
  /\ queries = 0 /\ initCalls = 1 /\ pc[1] = "returned" /\ kind[1] = "get_agent"
  /\ Len(client_get_tools(advertised)) = 2
  /\ tools_cache # None /\ Len(Val(tools_cache)) = 1
  /\ agent_cache # None /\ Val(agent_cache).tools = Val(tools_cache)

\* C3: the post-filter tool list never contains two tools with the same
\* name, also when both providers advertise the same name.
C3_NoDuplicateNames ==
  \A tools \in HeldToolLists :
    \A i, j \in 1..Len(tools) : i # j => tools[i].name # tools[j].name

\* C4: a step in which init_tools raises inside get_tools() leaves the
\* tool cache and the agent cache as they were (the caller gets the
\* exception); and as long as no initialisation has succeeded both caches
\* are empty and the next get_tools()/get_agent() call runs init_tools
\* again.
C4_FailureLeavesNoCache ==
  [][ \A c \in Callers :
        /\ (pc[c] = "init_tools" /\ pc'[c] = "raised") =>
             /\ tools_cache' = tools_cache
             /\ agent_cache' = agent_cache
        /\ (pc[c] = "idle" /\ pc'[c] # "idle" /\ initFailures > 0
              /\ \A d \in Callers : pc[d] # "returned") =>
             /\ tools_cache = None /\ agent_cache = None
             /\ pc'[c] = "init_tools"
             /\ initCalls' = initCalls + 1 ]_vars

\* C4 witness: the first call raised with both caches still empty, and a
\* call made after that failure is running init_tools again.
C4_Witness ==
  /\ pc[1] = "raised" /\ pc[2] = "init_tools" /\ seenFailures[2] = 1
  /\ tools_cache = None /\ agent_cache = None
  /\ initCalls = 2

\* C5: once tool initialisation has succeeded, the cached tool list stays
\* the same for the rest of the process lifetime, and the providers' tools
\* are not listed again: neither in the application process after
\* get_tools() has succeeded, nor on the subprocess path once a
\* run_query_async has initialised its tools.
C5_IdempotentAfterSuccess ==
  [][ /\ tools_cache # None =>
           /\ tools_cache' = tools_cache
           /\ initCalls' = initCalls
      /\ subRc = 0 =>
           totalInits' - initCalls' = totalInits - initCalls ]_vars

\* C6: across the /query and /health calls one application process serves
\* (no in-process initialisation involved), each provider is started at
\* most once.
C6_ProviderStartedOnce ==
  initCalls = 0 => \A p \in ProviderSet : spawns[p] <= 1

(***************************************************************************)
(* backend/main.py                                                         *)
(***************************************************************************)
\* The launcher is not part of the application process.
MainIdle ==
  /\ mpc = "off"
  /\ serverUp = FALSE
  /\ external = FALSE
  /\ extSignals = 0
  /\ repoExists = FALSE
  /\ npmFound = FALSE
  /\ ignoresTerm = FALSE
  /\ proc = None
  /\ procState = "none"
  /\ spawnCalls = 0
  /\ terminates = 0
  /\ waits = 0
  /\ kills = 0
  /\ firstProbe = "none"
  /\ elapsed = 0
  /\ ready = "none"
  /\ queryRan = 0
  /\ queryRaised = FALSE
  /\ cleanups = 0
  /\ waitResult = "none"
  /\ exitStatus = -1

\* The host main starts on: an MCP server may already exist (answering its
\* port or not yet), the repository directory and npm may be missing, and
\* the server process, once started, may ignore SIGTERM.
MainInit ==
  /\ mpc = "probe"
  /\ external \in BOOLEAN
  /\ serverUp \in { b \in BOOLEAN : b => external }
  /\ extSignals = 0
  /\ repoExists \in BOOLEAN
  /\ npmFound \in BOOLEAN
  /\ ignoresTerm \in BOOLEAN
  /\ proc = None
  /\ procState = "none"
  /\ spawnCalls = 0
  /\ terminates = 0
  /\ waits = 0
  /\ kills = 0
  /\ firstProbe = "none"
  /\ elapsed = 0
  /\ ready = "none"
  /\ queryRan = 0
  /\ queryRaised = FALSE
  /\ cleanups = 0
  /\ waitResult = "none"
  /\ exitStatus = -1

\* is_server_running(url): True exactly when the GET answers 200.
is_server_running == serverUp

\* A launcher that starts its own server whatever the probe said.
ProbeServerAlwaysStart ==
  /\ mpc = "probe"
  /\ firstProbe' = IF is_server_running THEN "up" ELSE "down"
  /\ mpc' = "start_server"
  /\ UNCHANGED << serverUp, external, extSignals, repoExists, npmFound,
                  ignoresTerm, proc, procState, spawnCalls, terminates, waits,
                  kills, elapsed, ready, queryRan, queryRaised, cleanups,
                  waitResult, exitStatus >>
  /\ UNCHANGED notMainVars

\* main, step 1: `if is_server_running(MCP_BASE_URL): proc = None`, else
\* go on to launch the server.
ProbeServer ==
  /\ mpc = "probe"
  /\ firstProbe' = IF is_server_running THEN "up" ELSE "down"
  /\ mpc' = IF is_server_running THEN "run_query" ELSE "start_server"
  /\ UNCHANGED << serverUp, external, extSignals, repoExists, npmFound,
                  ignoresTerm, proc, procState, spawnCalls, terminates, waits,
                  kills, elapsed, ready, queryRan, queryRaised, cleanups,
                  waitResult, exitStatus >>
  /\ UNCHANGED notMainVars

\* A start_mcp_server that goes to Popen without looking for the repository:
\* Popen then raises on the missing working directory.
StartMcpServerNoRepoCheck ==
  /\ mpc = "start_server"
  /\ IF ~repoExists \/ ~npmFound
       THEN /\ spawnCalls' = spawnCalls + 1
            /\ mpc' = "exited"
            /\ exitStatus' = 1
            /\ UNCHANGED << proc, procState >>
       ELSE /\ spawnCalls' = spawnCalls + 1
            /\ proc' = Some("child")
            /\ procState' = "running"
            /\ mpc' = "wait_ready"
            /\ UNCHANGED exitStatus
  /\ elapsed' = 0
  /\ UNCHANGED << serverUp, external, extSignals, repoExists, npmFound,
                  ignoresTerm, terminates, waits, kills, firstProbe, ready,
                  queryRan, queryRaised, cleanups, waitResult >>
  /\ UNCHANGED notMainVars

\* start_mcp_server(REPO_DIR) inside main's try: a missing repository raises
\* before Popen; a missing npm makes the one Popen call raise; both reach
\* `except Exception` and sys.exit(1). Otherwise proc is the new process.
StartMcpServer ==
  /\ mpc = "start_server"
  /\ IF ~repoExists
       THEN /\ mpc' = "exited"
            /\ exitStatus' = 1
            /\ UNCHANGED << proc, procState, spawnCalls >>
       ELSE IF ~npmFound
         THEN /\ spawnCalls' = spawnCalls + 1
              /\ mpc' = "exited"
              /\ exitStatus' = 1
              /\ UNCHANGED << proc, procState >>
         ELSE /\ spawnCalls' = spawnCalls + 1
              /\ proc' = Some("child")
              /\ procState' = "running"
              /\ mpc' = "wait_ready"
              /\ UNCHANGED exitStatus
  /\ elapsed' = 0
  /\ UNCHANGED << serverUp, external, extSignals, repoExists, npmFound,
                  ignoresTerm, terminates, waits, kills, firstProbe, ready,
                  queryRan, queryRaised, cleanups, waitResult >>
  /\ UNCHANGED notMainVars

\* timeout of wait_until_ready, the timeout of its GET and the length of its
\* sleep, in ticks.
WaitDeadline == ReadyTimeout * TicksPerSecond
ProbeTimeout == TicksPerSecond
PollInterval == TicksPerSecond

\* One iteration of wait_until_ready's loop, entered while
\* `time.time() - start < timeout`: a GET that answers 200 returns True;
\* otherwise the GET fails at once, or later, at the latest when its 1 s
\* timeout strikes, and the loop sleeps 1 s.
WaitPoll ==
  /\ mpc = "wait_ready"
  /\ elapsed < WaitDeadline
  /\ IF serverUp
       THEN /\ ready' = "true"
            /\ mpc' = "run_query"
            /\ UNCHANGED elapsed
       ELSE /\ \E d \in 0..ProbeTimeout : elapsed' = elapsed + d + PollInterval
            /\ UNCHANGED << ready, mpc >>
  /\ UNCHANGED << serverUp, external, extSignals, repoExists, npmFound,
                  ignoresTerm, proc, procState, spawnCalls, terminates, waits,
                  kills, firstProbe, queryRan, queryRaised, cleanups,
                  waitResult, exitStatus >>
  /\ UNCHANGED notMainVars

\* A main that does not look at what wait_until_ready returned.
WaitTimeoutIgnored ==
  /\ mpc = "wait_ready"
  /\ elapsed >= WaitDeadline
  /\ ready' = "false"
  /\ mpc' = "run_query"
  /\ UNCHANGED << serverUp, external, extSignals, repoExists, npmFound,
                  ignoresTerm, proc, procState, spawnCalls, terminates, waits,
                  kills, firstProbe, elapsed, queryRan, queryRaised, cleanups,
                  waitResult, exitStatus >>
  /\ UNCHANGED notMainVars

\* wait_until_ready leaves its loop and returns False; main prints, calls
\* proc.terminate() and sys.exit(1). SystemExit is no Exception, and the
\* try/finally of the clean-up has not been entered.
WaitTimeout ==
  /\ mpc = "wait_ready"
  /\ elapsed >= WaitDeadline
  /\ ready' = "false"
  /\ terminates' = IF proc # None THEN terminates + 1 ELSE terminates
  /\ mpc' = "exited"
  /\ exitStatus' = 1
  /\ UNCHANGED << serverUp, external, extSignals, repoExists, npmFound,
                  ignoresTerm, proc, procState, spawnCalls, waits, kills,
                  firstProbe, elapsed, queryRan, queryRaised, cleanups,
                  waitResult >>
  /\ UNCHANGED notMainVars

\* run_query(user_query) inside try: it returns or raises; either way the
\* finally block runs next.
RunQuery ==
  /\ mpc = "run_query"
  /\ queryRan' = queryRan + 1
  /\ queryRaised' \in BOOLEAN
  /\ mpc' = "finally"
  /\ UNCHANGED << serverUp, external, extSignals, repoExists, npmFound,
                  ignoresTerm, proc, procState, spawnCalls, terminates, waits,
                  kills, firstProbe, elapsed, ready, cleanups, waitResult,
                  exitStatus >>
  /\ UNCHANGED notMainVars

\* A clean-up that stops whatever server is there.
ShutdownTargetAny == IF proc # None THEN "child" ELSE "external"

\* `if proc:` of the finally block: whom the clean-up signals.
ShutdownTarget == IF proc # None THEN "child" ELSE "nobody"

\* finally, first part: with a proc, print and proc.terminate(); without,
\* print that the server was left as it is, and main ends.
CleanupTerminate ==
  /\ mpc = "finally"
  /\ IF ShutdownTarget = "child"
       THEN /\ terminates' = terminates + 1
            /\ cleanups' = cleanups + 1
            /\ mpc' = "wait"
            /\ UNCHANGED << extSignals, exitStatus >>
       ELSE /\ extSignals' = IF ShutdownTarget = "external"
                               THEN extSignals + 1 ELSE extSignals
            /\ mpc' = "exited"
            /\ exitStatus' = IF queryRaised THEN 1 ELSE 0
            /\ UNCHANGED << terminates, cleanups >>
  /\ UNCHANGED << serverUp, external, repoExists, npmFound, ignoresTerm, proc,
                  procState, spawnCalls, waits, kills, firstProbe, elapsed,
                  ready, queryRan, queryRaised, waitResult >>
  /\ UNCHANGED notMainVars

\* proc.wait(timeout=5): returns when the process has ended (it had ended
\* already, or it obeys SIGTERM within the grace period), else raises
\* TimeoutExpired.
CleanupWait ==
  /\ mpc = "wait"
  /\ waits' = waits + 1
  /\ IF procState = "exited" \/ ~ignoresTerm
       THEN /\ procState' = "exited"
            /\ serverUp' = (serverUp /\ external)
            /\ waitResult' = "exited"
            /\ mpc' = "exited"
            /\ exitStatus' = IF queryRaised THEN 1 ELSE 0
       ELSE /\ waitResult' = "expired"
            /\ mpc' = "kill"
            /\ UNCHANGED << procState, serverUp, exitStatus >>
  /\ UNCHANGED << external, extSignals, repoExists, npmFound, ignoresTerm,
                  proc, spawnCalls, terminates, kills, firstProbe, elapsed,
                  ready, queryRan, queryRaised, cleanups >>
  /\ UNCHANGED notMainVars

\* A handler of TimeoutExpired that gives up instead of killing.
CleanupKillSkipped ==
  /\ mpc = "kill"
  /\ mpc' = "exited"
  /\ exitStatus' = IF queryRaised THEN 1 ELSE 0
  /\ UNCHANGED << serverUp, external, extSignals, repoExists, npmFound,
                  ignoresTerm, proc, procState, spawnCalls, terminates, waits,
                  kills, firstProbe, elapsed, ready, queryRan, queryRaised,
                  cleanups, waitResult >>
  /\ UNCHANGED notMainVars

\* `except subprocess.TimeoutExpired: proc.kill()`: SIGKILL ends the
\* process whatever it does with SIGTERM.
CleanupKill ==
  /\ mpc = "kill"
  /\ kills' = kills + 1
  /\ procState' = "exited"
  /\ serverUp' = (serverUp /\ external)
  /\ mpc' = "exited"
  /\ exitStatus' = IF queryRaised THEN 1 ELSE 0
  /\ UNCHANGED << external, extSignals, repoExists, npmFound, ignoresTerm,
                  proc, spawnCalls, terminates, waits, firstProbe, elapsed,
                  ready, queryRan, queryRaised, cleanups, waitResult >>
  /\ UNCHANGED notMainVars

\* The environment: a server (the started one, or the one that existed)
\* begins to answer 200 on the port.
ServerComesUp ==
  /\ mpc \in { "probe", "start_server", "wait_ready" }
  /\ ~serverUp
  /\ external \/ procState = "running"
  /\ serverUp' = TRUE
  /\ UNCHANGED << mpc, external, extSignals, repoExists, npmFound, ignoresTerm,
                  proc, procState, spawnCalls, terminates, waits, kills,
                  firstProbe, elapsed, ready, queryRan, queryRaised, cleanups,
                  waitResult, exitStatus >>
  /\ UNCHANGED notMainVars

\* The environment: the started process ends (npm start fails, the server
\* crashes, or it obeys a SIGTERM it was sent).
ChildExits ==
  /\ procState = "running"
  /\ procState' = "exited"
  /\ serverUp' = (serverUp /\ external)
  /\ UNCHANGED << mpc, external, extSignals, repoExists, npmFound, ignoresTerm,
                  proc, spawnCalls, terminates, waits, kills, firstProbe,
                  elapsed, ready, queryRan, queryRaised, cleanups, waitResult,
                  exitStatus >>
  /\ UNCHANGED notMainVars

MainNext ==
  \/ ProbeServer
  \/ StartMcpServer
  \/ WaitPoll
  \/ WaitTimeout
  \/ RunQuery
  \/ CleanupTerminate
  \/ CleanupWait
  \/ CleanupKill
  \/ ServerComesUp
  \/ ChildExits

(***************************************************************************)
(* Properties of the launcher (SpecMain).                                  *)
(***************************************************************************)
\* C7: if the first readiness probe answered, no process is spawned and
\* proc is None; a process is spawned only when that probe did not succeed.
C7_NoSpawnWhenAlreadyRunning ==
  /\ firstProbe = "up" => (spawnCalls = 0 /\ proc = None /\ procState = "none")
  /\ spawnCalls > 0 => firstProbe = "down"

\* C7 witness: the probe answered and main ran the query and ended without
\* ever holding a process.
C7_Witness ==
  firstProbe = "up" /\ mpc = "exited" /\ queryRan = 1 /\ spawnCalls = 0

\* C8: on every path through main a server that existed before this run is
\* never signalled; terminate and kill only ever go to the process this
\* run started after a failed probe.
C8_ExternalNeverSignalled ==
  /\ extSignals = 0
  /\ (terminates > 0 \/ kills > 0) =>
       (proc # None /\ spawnCalls = 1 /\ firstProbe = "down")

\* C8 witness: a server existed and answered, the query raised, and main
\* has ended after its clean-up.
C8_Witness ==
  /\ external /\ firstProbe = "up"
  /\ queryRan = 1 /\ queryRaised
  /\ mpc = "exited" /\ exitStatus = 1

\* C9: when the clean-up of main has shut an owned process down, the
\* process is no longer running: terminate was sent, exit was awaited once,
\* and kill was sent exactly when the grace period expired.
C9_ShutdownEndsProcess ==
  (mpc = "exited" /\ cleanups > 0) =>
    /\ procState = "exited"
    /\ terminates = 1
    /\ waits = 1
    /\ (waitResult = "expired") <=> (kills = 1)

\* C9 witness: the process ignored SIGTERM, the wait expired, kill was sent
\* and the process has ended.
C9_Witness ==
  /\ ignoresTerm /\ mpc = "exited" /\ cleanups = 1
  /\ waitResult = "expired" /\ kills = 1 /\ procState = "exited"

\* C10: whenever main has ended after starting the server process itself,
\* the full shutdown was performed exactly once: one terminate, one awaited
\* exit, and a kill if the grace period expired.
C10_FullShutdownOnEveryPath ==
  (mpc = "exited" /\ proc # None) =>
    /\ terminates = 1
    /\ waits = 1
    /\ waitResult = "expired" => kills = 1

\* C11: when no probe ever succeeds, wait_until_ready returns False, and the
\* time that has passed when it returns is at most the timeout plus one
\* poll interval of 1 s.
C11_WaitBoundedByTimeoutPlusInterval ==
  ready = "false" => elapsed <= WaitDeadline + PollInterval

\* C12: the query runs only after the first probe answered or
\* wait_until_ready returned True; once wait_until_ready has returned False
\* main has exited with a failure status and run_query was never called.
C12_QueryOnlyWhenReady ==
  /\ queryRan > 0 => (firstProbe = "up" \/ ready = "true")
  /\ ready = "false" => (mpc = "exited" /\ exitStatus = 1 /\ queryRan = 0)

\* C12 witness: the started server never answered, wait_until_ready gave up
\* and main has exited with status 1 without running the query.
C12_Witness ==
  /\ ready = "false" /\ spawnCalls = 1 /\ elapsed >= WaitDeadline
  /\ mpc = "exited" /\ exitStatus = 1 /\ queryRan = 0

\* C13: with the launch directory missing no spawn is attempted at all; with
\* the launch command missing exactly one spawn is attempted and none
\* after it; in both cases main exits with a failure status and never runs
\* the query.
C13_LaunchFailuresExitWithoutQuery ==
  /\ (firstProbe = "down" /\ ~repoExists) =>
       /\ spawnCalls = 0 /\ queryRan = 0 /\ proc = None
       /\ mpc \in { "start_server", "exited" }
       /\ mpc = "exited" => exitStatus = 1
  /\ (firstProbe = "down" /\ repoExists /\ ~npmFound) =>
       /\ spawnCalls <= 1 /\ queryRan = 0 /\ proc = None
       /\ mpc \in { "start_server", "exited" }
       /\ mpc = "exited" => (spawnCalls = 1 /\ exitStatus = 1)

\* C13 witness: the probe failed, the launch directory does not exist, and
\* main has exited with status 1 having spawned nothing and run no query.
C13_Witness ==
  /\ firstProbe = "down" /\ ~repoExists
  /\ mpc = "exited" /\ exitStatus = 1 /\ spawnCalls = 0 /\ queryRan = 0

(***************************************************************************)
(* One query's event stream and its consumers (SpecLoop).                  *)
(***************************************************************************)
\* Message contents: the empty text and two texts.
Contents == { "", "free until 18:00", "3 events today" }

\* Events of agent.astream, one message each (an event with several
\* messages is consumed like as many events of its key in a row, every
\* consumer handling the messages of an event in order and one by one).
\* The agent node yields AI messages, the tools node tool messages, and an
\* event of the message-list shape may carry any message.
AgentEvents == [key : {"agent"}, type : {"ai"}, content : Contents]
ToolsEvents == [key : {"tools"}, type : {"tool"}, content : Contents]
MessagesEvents ==
  [key : {"messages"}, type : {"ai", "tool", "human"}, content : Contents]
Events == AgentEvents \cup ToolsEvents \cup MessagesEvents

\* The keywords of execute_calendar_query's gate, in the order of the source:
\* kintore, workout (katakana), undou, training (katakana), akijikan.
keywords == << "kintore", "workout", "undou", "training", "akijikan" >>

\* request.query: a text of one word, a keyword or "yotei" (schedule).
Queries == { << w >> : w \in { keywords[i] : i \in DOMAIN keywords } \cup { "yotei" } }

\* `any(keyword in query.lower() for keyword in [...])`: some keyword occurs
\* in the text.
has_keyword(q) ==
  \E i \in DOMAIN keywords : \E j \in DOMAIN q : q[j] = keywords[i]

\* workout_query of get_workout_schedule: the request behind a prefix that
\* begins with kintore.
workout_query(q) == << "kintore", "wo suru jikan wo mitsukete:" >> \o q

\* A WorkoutTimeSlot the structured model may return.
ExtractedSlots ==
  { [time |-> "07:30", reason |-> "free", duration_minutes |-> 60] }

\* Python truth of an optional text: neither None nor "".
Truthy(o) == o # None /\ Val(o) # ""

\* A loop body that takes the content of every AI message, empty or not.
exec_final_response_unchecked(fr, ev) ==
  IF ev.key \in { "messages", "agent" } /\ ev.type = "ai"
    THEN ev.content
    ELSE fr

\* execute_calendar_query, loop body: final_response after one event.
exec_final_response(fr, ev) ==
  IF ev.key \in { "messages", "agent" } /\ ev.content # "" /\ ev.type = "ai"
    THEN ev.content
    ELSE fr

\* run_query_async, loop body: final_response after one event.
cli_final_response_after(fr, ev) ==
  IF ev.key \in { "messages", "agent" } /\ ev.type = "ai"
    THEN Some(ev.content)
    ELSE fr

\* A generator that puts the robot sign before every message of a
\* message-list event, whatever its type.
generate_response_chunks_untyped(ev) ==
  IF ev.content = "" THEN << >>
  ELSE IF ev.key \in { "messages", "agent" }
    THEN << [tag |-> "ai", content |-> ev.content] >>
    ELSE << [tag |-> "tool", content |-> ev.content] >>

\* generate_response, loop body: the chunks yielded for one event. Tags:
\* "ai" for the robot prefix, "tool" for the "Tool:" prefix, "plain" for
\* none.
generate_response_chunks(ev) ==
  IF ev.content = "" THEN << >>
  ELSE IF ev.key = "messages"
    THEN << [tag |-> IF ev.type = "ai" THEN "ai"
                     ELSE IF ev.type = "tool" THEN "tool" ELSE "plain",
             content |-> ev.content] >>
  ELSE IF ev.key = "agent"
    THEN << [tag |-> "ai", content |-> ev.content] >>
    ELSE << [tag |-> "tool", content |-> ev.content] >>

\* The sentinel chunk "data: [DONE]" and the chunk of the except branch.
DoneChunk == [tag |-> "done", content |-> "[DONE]"]
ErrorChunk == [tag |-> "error", content |-> "Error"]

\* No query is running.
LoopIdle ==
  /\ request = << >>
  /\ lpc = "idle"
  /\ phase = "START"
  /\ events = << >>
  /\ final_response = ""
  /\ structured_result = None
  /\ epc = "idle"
  /\ extractCalls = 0
  /\ retryCalls = 0
  /\ wsStatus = 0
  /\ wsBody = None
  /\ cli_final_response = None
  /\ cpc = "idle"
  /\ cliExtractCalls = 0
  /\ cliSlot = None
  /\ chunks = << >>
  /\ spc = "idle"

\* The three consumers have been handed the same request and stand before
\* their `async for`: final_response is "" in execute_calendar_query and
\* None in run_query_async.
LoopInit ==
  /\ request \in Queries
  /\ lpc = "loop"
  /\ phase = "START"
  /\ events = << >>
  /\ final_response = ""
  /\ structured_result = None
  /\ epc = "loop"
  /\ extractCalls = 0
  /\ retryCalls = 0
  /\ wsStatus = 0
  /\ wsBody = None
  /\ cli_final_response = None
  /\ cpc = "loop"
  /\ cliExtractCalls = 0
  /\ cliSlot = None
  /\ chunks = << >>
  /\ spc = "open"

\* astream yields one more event and each consumer runs its loop body.
AgentYields ==
  /\ lpc = "loop"
  /\ Len(events) < MaxEvents
  /\ \E ev \in Events :
       /\ events' = Append(events, ev)
       /\ final_response' = exec_final_response(final_response, ev)
       /\ cli_final_response' = cli_final_response_after(cli_final_response, ev)
       /\ chunks' = chunks \o generate_response_chunks(ev)
  /\ UNCHANGED << request, lpc, phase, structured_result, epc, extractCalls,
                  retryCalls, wsStatus, wsBody, cpc, cliExtractCalls, cliSlot,
                  spc >>
  /\ UNCHANGED notLoopVars

\* astream is exhausted: the loops end. generate_response yields the
\* sentinel and returns; the other two go on to their structured step.
AgentEnds ==
  /\ lpc = "loop"
  /\ lpc' = "ended"
  /\ chunks' = Append(chunks, DoneChunk)
  /\ spc' = "closed"
  /\ epc' = "extract"
  /\ cpc' = "extract"
  /\ UNCHANGED << request, phase, events, final_response, structured_result,
                  extractCalls, retryCalls, wsStatus, wsBody,
                  cli_final_response, cliExtractCalls, cliSlot >>
  /\ UNCHANGED notLoopVars

\* astream raises inside the loop. generate_response's `except Exception`
\* yields the error chunk and the generator returns. execute_calendar_query
\* has no handler: get_workout_schedule's `except Exception` answers 500.
\* run_query_async has none either: the subprocess dies with the traceback.
AgentRaises ==
  /\ lpc = "loop"
  /\ lpc' = "raised"
  /\ chunks' = Append(chunks, ErrorChunk)
  /\ spc' = "closed"
  /\ epc' = "raised"
  /\ wsStatus' = 500
  /\ cpc' = "raised"
  /\ UNCHANGED << request, phase, events, final_response, structured_result,
                  extractCalls, retryCalls, wsBody, cli_final_response,
                  cliExtractCalls, cliSlot >>
  /\ UNCHANGED notLoopVars

\* execute_calendar_query after its loop, called by get_workout_schedule
\* with workout_query: behind the keyword gate one structured_llm.ainvoke,
\* whose exception is logged and leaves structured_result None; the function
\* returns (final_response, structured_result). get_workout_schedule
\* answers with a slot it got, and goes on to its retry when it got None.
ExecStructured ==
  /\ epc = "extract"
  /\ IF has_keyword(workout_query(request))
       THEN /\ extractCalls' = extractCalls + 1
            /\ \/ \E s \in ExtractedSlots : structured_result' = Some(s)
               \/ structured_result' = None
       ELSE /\ structured_result' = None
            /\ UNCHANGED extractCalls
  /\ IF structured_result' = None
       THEN /\ epc' = "retry"
            /\ UNCHANGED << wsStatus, wsBody >>
       ELSE /\ epc' = "responded"
            /\ wsStatus' = 200
            /\ wsBody' = structured_result'
  /\ UNCHANGED << request, lpc, phase, events, final_response, retryCalls,
                  cli_final_response, cpc, cliExtractCalls, cliSlot, chunks,
                  spc >>
  /\ UNCHANGED notLoopVars

\* get_workout_schedule, `if structured_result is None`: one more
\* structured_llm.ainvoke with another prompt; its exception is answered
\* with HTTPException(500).
WorkoutRetry ==
  /\ epc = "retry"
  /\ retryCalls' = retryCalls + 1
  /\ \/ \E s \in ExtractedSlots :
          /\ structured_result' = Some(s)
          /\ wsStatus' = 200
          /\ wsBody' = Some(s)
     \/ /\ wsStatus' = 500
        /\ UNCHANGED << structured_result, wsBody >>
  /\ epc' = "responded"
  /\ UNCHANGED << request, lpc, phase, events, final_response, extractCalls,
                  cli_final_response, cpc, cliExtractCalls, cliSlot, chunks,
                  spc >>
  /\ UNCHANGED notLoopVars

\* run_query_async after its loop: `if final_response:` one
\* structured_llm.ainvoke, whose slot is printed and whose exception is
\* printed as a warning; then the subprocess exits with code 0.
CliStructured ==
  /\ cpc = "extract"
  /\ IF Truthy(cli_final_response)
       THEN /\ cliExtractCalls' = cliExtractCalls + 1
            /\ \/ \E s \in ExtractedSlots : cliSlot' = Some(s)
               \/ cliSlot' = None
       ELSE UNCHANGED << cliExtractCalls, cliSlot >>
  /\ cpc' = "exited"
  /\ UNCHANGED << request, lpc, phase, events, final_response,
                  structured_result, epc, extractCalls, retryCalls, wsStatus,
                  wsBody, cli_final_response, chunks, spc >>
  /\ UNCHANGED notLoopVars

LoopNext ==
  \/ AgentYields
  \/ AgentEnds
  \/ AgentRaises
  \/ ExecStructured
  \/ WorkoutRetry
  \/ CliStructured

(***************************************************************************)
(* Properties of the event stream's consumers (SpecLoop).                  *)
(***************************************************************************)
\* Positions of the model-answer messages of an event sequence: AI type,
\* content not empty.
AnswerPositions(evs) ==
  { i \in DOMAIN evs : evs[i].type = "ai" /\ evs[i].content # "" }

\* The content of the last model-answer message of an event sequence that
\* has one.
LastAnswer(evs) ==
  LET last == CHOOSE i \in AnswerPositions(evs) :
                \A j \in AnswerPositions(evs) : j <= i
  IN evs[last].content

\* C14: once the event sequence holds a model-answer message, the final
\* text of execute_calendar_query and the final text of run_query_async are
\* both the content of the last such message; tool messages and empty AI
\* messages do not change it.
C14_FinalTextIsLastAnswer ==
  AnswerPositions(events) # {} =>
    /\ final_response = LastAnswer(events)
    /\ cli_final_response = Some(LastAnswer(events))

\* The fallback text of query_calendar ("karenda no sousa ga kanryou
\* shimashita.").
CompletionFallback == "calendar operation completed."

\* C15: when the event sequence of a query holds no model-answer message
\* with content, the text execute_calendar_query returns to its caller is
\* the completion fallback text, not the empty text.
C15_FallbackTextWhenNoAnswer ==
  (epc \in { "retry", "responded" } /\ AnswerPositions(events) = {}) =>
    final_response = CompletionFallback

\* C16: for a query text with none of the keywords no structured extraction
\* call is made and the result carries no slot, in execute_calendar_query
\* and in run_query_async.
C16_ExtractionOnlyForKeywords ==
  /\ ~has_keyword(workout_query(request)) =>
       (extractCalls = 0 /\ structured_result = None)
  /\ ~has_keyword(request) =>
       (cliExtractCalls = 0 /\ cliSlot = None)

\* C17: get_workout_schedule retries a failed extraction at most once, and
\* whatever the extraction calls did, its answer is a time slot with status
\* 200, never an error.
C17_RetryOnceThenFallbackSlot ==
  /\ retryCalls <= 1
  /\ (epc = "responded" /\ extractCalls = 1) =>
       (wsStatus = 200 /\ wsBody # None)

\* C19: when generate_response has returned, the last chunk is the sentinel
\* and it is the only sentinel chunk, on normal completion and after the
\* agent raised; while the generator runs it has yielded one chunk for
\* every event with content so far.
C19_StreamEndsWithSentinel ==
  /\ spc = "closed" =>
       /\ Len(chunks) > 0
       /\ chunks[Len(chunks)] = DoneChunk
       /\ Cardinality({ i \in DOMAIN chunks : chunks[i] = DoneChunk }) = 1
  /\ spc = "open" =>
       Len(chunks) = Cardinality({ i \in DOMAIN events : events[i].content # "" })

\* The chunks yielded for events: all but the sentinel and the error chunk.
EventChunks == SelectSeq(chunks, LAMBDA c : c.tag \notin { "done", "error" })

\* Events so far that carry content.
WithContent == { i \in DOMAIN events : events[i].content # "" }

\* C22: the stream holds exactly one chunk for every message with content,
\* in the order of the events, and none for a message without; the chunk of
\* an AI message, and of no other message, is tagged as model output, and
\* the chunk of a tool message, and of no other, as tool result.
C22_ChunksTaggedByMessageType ==
  /\ Len(EventChunks) = Cardinality(WithContent)
  /\ \A i \in WithContent :
       LET c == EventChunks[Cardinality({ j \in WithContent : j <= i })] IN
         /\ c.content = events[i].content
         /\ c.tag = "ai" <=> events[i].type = "ai"
         /\ c.tag = "tool" <=> events[i].type = "tool"

\* C22 witness: a tool message of a message-list event and then an AI
\* message, both with content, have been streamed and the stream has ended
\* with its sentinel.
C22_Witness ==
  /\ Len(events) = 2 /\ spc = "closed" /\ Len(chunks) = 3
  /\ events[1].key = "messages" /\ events[1].type = "tool"
  /\ events[1].content # ""
  /\ events[2].type = "ai" /\ events[2].content # ""
  /\ chunks[1].tag = "tool" /\ chunks[2].tag = "ai"

\* The chunks the generator tagged as model output.
ModelChunks == SelectSeq(chunks, LAMBDA c : c.tag = "ai")

\* C26: on the same event sequence the final text of
\* execute_calendar_query is the content of the last chunk the stream
\* tagged as model output, and it is empty exactly when there is no such
\* chunk.
C26_FinalTextIsLastModelChunk ==
  /\ ModelChunks # << >> =>
       final_response = ModelChunks[Len(ModelChunks)].content
  /\ final_response = "" <=> ModelChunks = << >>

\* C26 witness: an AI message with content was followed by an empty AI
\* message, the loops have ended, and the final text is the first one's
\* content, which is also the stream's only model chunk.
C26_Witness ==
  /\ lpc = "ended" /\ Len(events) = 2
  /\ events[1].type = "ai" /\ events[1].content # ""
  /\ events[2].type = "ai" /\ events[2].content = ""
  /\ final_response = events[1].content
  /\ Len(ModelChunks) = 1

(***************************************************************************)
(* The loops driven by a ReAct agent (SpecAgent).                          *)
(*                                                                         *)
(* create_react_agent alternates between its agent node, where the model   *)
(* either requests tool calls or gives its answer, and its tools node.     *)
(* Neither execute_calendar_query nor run_query_async counts the events    *)
(* it consumes, and astream is called without a configuration: the loops   *)
(* run for as long as events arrive. The event history and the stream's    *)
(* chunks are not kept here.                                               *)
(***************************************************************************)
\* execute_calendar_query and run_query_async have called astream.
AgentInit ==
  /\ request \in Queries
  /\ lpc = "loop"
  /\ phase = "START"
  /\ events = << >>
  /\ final_response = ""
  /\ structured_result = None
  /\ epc = "loop"
  /\ extractCalls = 0
  /\ retryCalls = 0
  /\ wsStatus = 0
  /\ wsBody = None
  /\ cli_final_response = None
  /\ cpc = "loop"
  /\ cliExtractCalls = 0
  /\ cliSlot = None
  /\ chunks = << >>
  /\ spc = "idle"

\* One event of the run reaches the two loops.
Consume(ev) ==
  /\ final_response' = exec_final_response(final_response, ev)
  /\ cli_final_response' = cli_final_response_after(cli_final_response, ev)

\* The agent node is entered with the user's message.
AgentStarts ==
  /\ lpc = "loop"
  /\ phase = "START"
  /\ phase' = "THINKING"
  /\ UNCHANGED << request, lpc, events, final_response, structured_result,
                  epc, extractCalls, retryCalls, wsStatus, wsBody,
                  cli_final_response, cpc, cliExtractCalls, cliSlot, chunks,
                  spc >>
  /\ UNCHANGED notLoopVars

\* The model's message requests tool calls: an agent event whose AI message
\* has any content, and the tools node is next.
ModelRequestsTool ==
  /\ lpc = "loop"
  /\ phase = "THINKING"
  /\ \E ev \in AgentEvents : Consume(ev)
  /\ phase' = "TOOL_CALL"
  /\ UNCHANGED << request, lpc, events, structured_result, epc, extractCalls,
                  retryCalls, wsStatus, wsBody, cpc, cliExtractCalls, cliSlot,
                  chunks, spc >>
  /\ UNCHANGED notLoopVars

\* The tools node ran the calls: a tools event, and the model is next.
ToolAnswers ==
  /\ lpc = "loop"
  /\ phase = "TOOL_CALL"
  /\ \E ev \in ToolsEvents : Consume(ev)
  /\ phase' = "THINKING"
  /\ UNCHANGED << request, lpc, events, structured_result, epc, extractCalls,
                  retryCalls, wsStatus, wsBody, cpc, cliExtractCalls, cliSlot,
                  chunks, spc >>
  /\ UNCHANGED notLoopVars

\* The model's message requests no tool: the last agent event, after which
\* astream is exhausted and both loops end.
ModelAnswers ==
  /\ lpc = "loop"
  /\ phase = "THINKING"
  /\ \E ev \in AgentEvents : Consume(ev)
  /\ phase' = "DONE"
  /\ lpc' = "ended"
  /\ epc' = "extract"
  /\ cpc' = "extract"
  /\ UNCHANGED << request, events, structured_result, extractCalls,
                  retryCalls, wsStatus, wsBody, cliExtractCalls, cliSlot,
                  chunks, spc >>
  /\ UNCHANGED notLoopVars

AgentNext ==
  \/ AgentStarts
  \/ ModelRequestsTool
  \/ ToolAnswers
  \/ ModelAnswers
  \/ ExecStructured
  \/ WorkoutRetry
  \/ CliStructured

\* C20: for any model, one that keeps requesting tool calls included, the
\* event sequence of a query is finite: the loops of the query end.
C20_LoopEnds == <>(lpc = "ended")

(***************************************************************************)
(* The subprocess's printed output and its reading (SpecParse).            *)
(*                                                                         *)
(* A line is a sequence of pieces: the single characters the reading looks *)
(* at (digits, ":" and " "), and runs of other characters. A text is a     *)
(* sequence of lines, the text's split at its newlines.                    *)
(***************************************************************************)
Digits == << "0", "1", "2", "3", "4", "5", "6", "7", "8", "9" >>
DigitSet == { Digits[i] : i \in DOMAIN Digits }
DigitValue(c) == CHOOSE d \in 0..9 : Digits[d + 1] = c

\* str(n) of a natural number, as print writes duration_minutes.
RECURSIVE str_int(_)
str_int(n) ==
  IF n < 10 THEN << Digits[n + 1] >>
  ELSE str_int(n \div 10) \o << Digits[(n % 10) + 1] >>

\* int(s) succeeds: here, s is a non-empty run of digits.
is_int(s) == s # << >> /\ \A i \in DOMAIN s : s[i] \in DigitSet

\* int(s) of a run of digits.
RECURSIVE int_of(_)
int_of(s) ==
  IF s = << >> THEN 0
  ELSE 10 * int_of(SubSeq(s, 1, Len(s) - 1)) + DigitValue(s[Len(s)])

\* s.strip() of one line.
RECURSIVE strip(_)
strip(s) ==
  IF s = << >> THEN s
  ELSE IF s[1] = " " THEN strip(Tail(s))
  ELSE IF s[Len(s)] = " " THEN strip(SubSeq(s, 1, Len(s) - 1))
  ELSE s

\* The pattern of WorkoutTimeSlot.time, ^([0-1]?[0-9]|2[0-3]):[0-5][0-9]$.
matches_time_pattern(s) ==
  LET hour(h) ==
        \/ Len(h) = 1 /\ h[1] \in DigitSet
        \/ Len(h) = 2 /\ h[1] \in { "0", "1" } /\ h[2] \in DigitSet
        \/ Len(h) = 2 /\ h[1] = "2" /\ h[2] \in { "0", "1", "2", "3" }
      minute(m) ==
        /\ m[1] \in { "0", "1", "2", "3", "4", "5" }
        /\ m[2] \in DigitSet
  IN /\ Len(s) \in { 4, 5 }
     /\ s[Len(s) - 2] = ":"
     /\ hour(SubSeq(s, 1, Len(s) - 3))
     /\ minute(SubSeq(s, Len(s) - 1, Len(s)))

\* The lines message contents and reasons are made of: a time, a word, a
\* label with a colon, a number.
ContentLines ==
  { << "1", "8", ":", "0", "0" >>, << "ok" >>, << "gym", ":", "am" >>,
    << "4", "5" >> }

\* Texts of one line up to MaxTextLines lines.
Texts == SeqUpTo(ContentLines, MaxTextLines) \ { << >> }

\* Times a language model may write into a slot, and those that pass the
\* validation of WorkoutTimeSlot.
TimeCandidates ==
  { << "7", ":", "3", "0" >>, << "1", "8", ":", "0", "0" >>,
    << "2", "5", ":", "0", "0" >> }
ValidTimes == { t \in TimeCandidates : matches_time_pattern(t) }

\* The slots structured_llm.ainvoke may return (duration_minutes defaults
\* to 60).
WorkoutTimeSlots ==
  [time : ValidTimes, reason : Texts, duration_minutes : { 60 }]

\* What run_calendar_agent_sync's subprocess prints before the loop: the
\* lines of the module's start and of init_tools, then "User: <query>".
\* The fixed queries of the endpoints hold no colon.
HeaderLines ==
  << << "Connecting to MCP via stdio transport ..." >>,
     << "Loading tools from MCP server ..." >>,
     << " ", " ", " ", "1", " ", "tools loaded, ", "1",
        " ", "tools after filtering", ":" >>,
     << "User", ":", " ", "query" >> >>

\* print(f"<prefix>{content}"): the prefix stands before the first line.
print_text(prefix, text) == << prefix \o text[1] >> \o Tail(text)

\* The lines one message is printed as: every message of an agent or
\* message-list event behind the robot sign, a tools event's message
\* behind "Tool:".
print_message(m) ==
  IF m.key = "tools"
    THEN print_text(<< "Tool", ":", " " >>, m.content)
    ELSE print_text(<< "robot", " " >>, m.content)

\* The banner before the structured step, its first print beginning with a
\* newline.
BannerLines ==
  << << >>, << "=====" >>, << "structured workout schedule", ":" >>,
     << "=====" >> >>

\* The slot as run_query_async prints it: time, reason, duration_minutes.
print_slot(s) ==
  << s.time >> \o s.reason \o << str_int(s.duration_minutes) >>

\* The word "eraa" (error, in katakana) that health_check looks for.
ErrorWord == "eraa"

\* The two prints of the except branch, the first beginning with a newline:
\* "kouzouka shori de eraa ga hassei shimashita: <e>" and "tsuujou no
\* kaitou wo hyouji shite imasu."
WarningLines ==
  << << >>,
     << "kouzouka shori de ", ErrorWord, " ga hassei shimashita", ":", " ",
        "exception" >>,
     << "tsuujou no kaitou wo hyouji shite imasu." >> >>

\* The empty text, "".
EmptyText == << << >> >>

\* The last message of a run, the AI message of the agent node that requests
\* no tool, with any content. It is printed after every other message, and
\* either the structured step's lines follow it or, its content being
\* empty, it is itself the last line: the messages before it never reach
\* the last three lines in a way the reading accepts, and are left out.
FinalMessages ==
  [key : {"agent"}, type : {"ai"}, content : Texts \cup { EmptyText }]

\* The fallback time of get_workout_time and get_tomorrow_workout_time.
FallbackTime == << "1", "8", ":", "0", "0" >>

\* run_calendar_agent_sync on a subprocess that returned 0: the structured
\* result read from the last three lines of the output.
parse_structured_result(output_lines) ==
  IF Len(output_lines) >= 3
    THEN LET n == Len(output_lines)
             time_line == strip(output_lines[n - 2])
             reason_line == strip(output_lines[n - 1])
             duration_line == strip(output_lines[n])
         IN IF Cardinality({ i \in DOMAIN time_line : time_line[i] = ":" }) = 1
                 /\ is_int(duration_line)
              THEN Some([time |-> time_line, reason |-> reason_line,
                         duration_minutes |-> int_of(duration_line)])
              ELSE None
    ELSE None

\* Everything the subprocess prints when it runs to its end: the header,
\* the message, and after an AI message with content the banner followed by
\* the slot or, when structured_llm.ainvoke raised, by the warning.
run_query_async_output(m, a) ==
  HeaderLines \o print_message(m) \o
    ( IF m.type = "ai" /\ m.content # EmptyText
        THEN BannerLines \o (IF a # None THEN print_slot(Val(a)) ELSE WarningLines)
        ELSE << >> )

\* What the subprocess printed when it died before its loop ended.
CrashedOutput == HeaderLines

\* The text run_calendar_agent_sync returns for a failed subprocess:
\* "eraa ga hassei shimashita: <stderr>".
ErrorText == << << ErrorWord, " ga hassei shimashita", ":", " ", "stderr" >> >>

\* `"eraa" in test_response or "shisutemu eraa" in test_response`: the word
\* occurs somewhere in the text (the second test is implied by the first).
contains_error(text) ==
  \E i \in DOMAIN text : \E j \in DOMAIN text[i] : text[i][j] = ErrorWord

\* run_calendar_agent_sync(query) after subprocess.run: the response text
\* and the structured result.
run_calendar_agent_sync(rc, out) ==
  IF rc = 0
    THEN [response_text |-> out, structured_result |-> parse_structured_result(out)]
    ELSE [response_text |-> ErrorText, structured_result |-> None]

\* No request is being served.
ParseIdle ==
  /\ endpoint = "none"
  /\ cliMessage = None
  /\ llmAnswer = None
  /\ stdout = << >>
  /\ returncode = -1
  /\ sync_result = None
  /\ answer = None
  /\ ppc = "idle"

\* A request has reached one of the endpoints that run the subprocess. The
\* agent will end with its final message; the structured model, asked when
\* that message has content, will return a slot or raise.
ParseInit ==
  /\ endpoint \in { "/workout-time", "/workout-time/tomorrow", "/query",
                    "/health" }
  /\ cliMessage \in { Some(m) : m \in FinalMessages }
  /\ llmAnswer \in { None } \cup { Some(s) : s \in WorkoutTimeSlots }
  /\ Val(cliMessage).content = EmptyText => llmAnswer = None
  /\ stdout = << >>
  /\ returncode = -1
  /\ sync_result = None
  /\ answer = None
  /\ ppc = "run"

\* subprocess.run of calendar_agent.py: run_query_async runs to its end and
\* the process returns 0, or it raises on the way (a provider's launch
\* command is not found and client.get_tools() raises in init_tools, or
\* astream raises) and the process returns 1.
CliRun ==
  /\ ppc = "run"
  /\ \/ /\ stdout' = run_query_async_output(Val(cliMessage), llmAnswer)
        /\ returncode' = 0
     \/ /\ stdout' = CrashedOutput
        /\ returncode' = 1
  /\ ppc' = "ran"
  /\ UNCHANGED << endpoint, cliMessage, llmAnswer, sync_result, answer >>
  /\ UNCHANGED notParseVars

\* The body both workout-time endpoints share: the time of the structured
\* result when there is one, else the fallback time.
WorkoutTimeAnswer ==
  /\ ppc = "ran"
  /\ LET r == run_calendar_agent_sync(returncode, stdout) IN
       /\ sync_result' = r.structured_result
       /\ answer' = Some([time |-> IF r.structured_result # None
                                     THEN Val(r.structured_result).time
                                     ELSE FallbackTime,
                          success |-> r.structured_result # None])
  /\ ppc' = "answered"
  /\ UNCHANGED << endpoint, cliMessage, llmAnswer, stdout, returncode >>
  /\ UNCHANGED notParseVars

\* GET /workout-time.
GetWorkoutTime ==
  /\ endpoint = "/workout-time"
  /\ WorkoutTimeAnswer

\* GET /workout-time/tomorrow.
GetTomorrowWorkoutTime ==
  /\ endpoint = "/workout-time/tomorrow"
  /\ WorkoutTimeAnswer

\* POST /query: a CalendarResponse with success=True, the response text,
\* replaced by the fallback text when it is empty, and the structured
\* result.
QueryCalendar ==
  /\ endpoint = "/query"
  /\ ppc = "ran"
  /\ LET r == run_calendar_agent_sync(returncode, stdout) IN
       /\ sync_result' = r.structured_result
       /\ answer' = Some([success |-> TRUE,
                          response |-> IF r.response_text = << >>
                                         THEN << << CompletionFallback >> >>
                                         ELSE r.response_text,
                          structured_result |-> r.structured_result])
  /\ ppc' = "answered"
  /\ UNCHANGED << endpoint, cliMessage, llmAnswer, stdout, returncode >>
  /\ UNCHANGED notParseVars

\* GET /health: the probe query's text decides the status; the structured
\* result is dropped.
HealthCheck ==
  /\ endpoint = "/health"
  /\ ppc = "ran"
  /\ LET r == run_calendar_agent_sync(returncode, stdout) IN
       /\ sync_result' = r.structured_result
       /\ answer' = Some([status |-> IF contains_error(r.response_text)
                                       THEN "degraded" ELSE "healthy"])
  /\ ppc' = "answered"
  /\ UNCHANGED << endpoint, cliMessage, llmAnswer, stdout, returncode >>
  /\ UNCHANGED notParseVars

ParseNext ==
  \/ CliRun
  \/ GetWorkoutTime
  \/ GetTomorrowWorkoutTime
  \/ QueryCalendar
  \/ HealthCheck

(***************************************************************************)
(* Properties of the output's reading (SpecParse).                         *)
(***************************************************************************)
\* C18: every time a workout-time endpoint returns and every time in the
\* structured result of run_calendar_agent_sync matches the HH:MM pattern
\* of WorkoutTimeSlot, and when no structured result could be read the
\* endpoint returns the fallback time 18:00.
C18_ReturnedTimesMatchPattern ==
  /\ sync_result # None => matches_time_pattern(Val(sync_result).time)
  /\ (ppc = "answered" /\ endpoint # "/query") =>
       /\ matches_time_pattern(Val(answer).time)
       /\ sync_result = None => Val(answer).time = FallbackTime

\* The slot run_query_async printed at the end of its output, if it did.
PrintedSlot ==
  IF /\ returncode = 0
     /\ cliMessage # None /\ Val(cliMessage).content # EmptyText
     /\ llmAnswer # None
    THEN llmAnswer
    ELSE None

\* C21: when a provider's launch command is not found, so that the agent
\* subprocess fails, /health answers with status degraded and /query ends
\* with an error result, not with one that reports success.
C21_LaunchFailureNotReportedAsSuccess ==
  (ppc = "answered" /\ returncode # 0) =>
    /\ endpoint = "/health" => Val(answer).status = "degraded"
    /\ endpoint = "/query" => ~Val(answer).success

\* C25: when the subprocess printed a slot at the end of its output, the
\* structured result run_calendar_agent_sync recovers has the same time,
\* reason and duration_minutes, whatever lines the reason has; when it
\* printed no slot, the recovered structured result is None.
C25_PrintParseRoundTrip ==
  ppc = "answered" =>
    IF PrintedSlot # None
      THEN /\ sync_result # None
           /\ Val(sync_result).time = Val(PrintedSlot).time
           /\ << Val(sync_result).reason >> = Val(PrintedSlot).reason
           /\ Val(sync_result).duration_minutes = Val(PrintedSlot).duration_minutes
      ELSE sync_result = None

\* C27: /health reports degraded exactly when the agent subprocess failed;
\* whenever it returned 0 the status is healthy, whatever was printed.
C27_DegradedOnlyOnSubprocessFailure ==
  (ppc = "answered" /\ endpoint = "/health") =>
    (Val(answer).status = "degraded" <=> returncode # 0)

(***************************************************************************)
(* init_tools' filter and the tool check of /query/stream (SpecFilter).    *)
(***************************************************************************)
\* Names of loaded tools: the three excluded names, a name that is kept,
\* and a name that contains an excluded name without being one.
LoadedNames == ToolNames \cup { "update-events" }

\* Loaded tools, each known by its name and the connection it came from.
LoadedTools == [name : LoadedNames, server : ProviderSet]

\* No tool list has been loaded.
FilterIdle ==
  /\ loaded = << >>
  /\ filterRuns = << >>
  /\ streamStatus = -1
  /\ agentRuns = 0

\* client.get_tools() answers with some list of tools.
FilterInit ==
  /\ loaded \in SeqUpTo(LoadedTools, MaxLoaded)
  /\ filterRuns = << >>
  /\ streamStatus = 0
  /\ agentRuns = 0

\* One run of init_tools on the loaded list (get_tools' first call in the
\* application, or a subprocess's): it returns filtered_tools.
InitToolsRun ==
  /\ streamStatus >= 0
  /\ Len(filterRuns) < MaxQueries
  /\ filterRuns' = Append(filterRuns, filtered_tools(loaded))
  /\ UNCHANGED << loaded, streamStatus, agentRuns >>
  /\ UNCHANGED notFilterVars

\* POST /query/stream: get_tools answers with the list its first call got
\* from init_tools, calling init_tools if there was none; `if not tools:
\* raise HTTPException(status_code=503, ...)` stands inside the handler's
\* try, whose `except Exception` answers every exception, this one
\* included, with HTTPException(status_code=500); with tools the
\* StreamingResponse is returned and generate_response starts the agent.
QueryCalendarStream ==
  /\ streamStatus = 0
  /\ LET tools == IF filterRuns = << >> THEN filtered_tools(loaded)
                  ELSE filterRuns[1]
     IN /\ filterRuns' = IF filterRuns = << >> THEN << tools >> ELSE filterRuns
        /\ IF tools = << >>
             THEN /\ streamStatus' = 500
                  /\ UNCHANGED agentRuns
             ELSE /\ streamStatus' = 200
                  /\ agentRuns' = agentRuns + 1
  /\ UNCHANGED loaded
  /\ UNCHANGED notFilterVars

FilterNext ==
  \/ InitToolsRun
  \/ QueryCalendarStream

\* Positions of the loaded tools whose names are not excluded.
KeptPositions == { i \in DOMAIN loaded : loaded[i].name \notin excluded_tools }

\* C23: every run of init_tools returns the loaded tools whose names are
\* not in the exclusion list, each as often as it was loaded and in the
\* order it was loaded, a tool whose name only contains an excluded name
\* among them; and every run on the same list returns the same list.
C23_FilterExactOrderedDeterministic ==
  \A k \in DOMAIN filterRuns :
    /\ Len(filterRuns[k]) = Cardinality(KeptPositions)
    /\ \A i \in KeptPositions :
         filterRuns[k][Cardinality({ j \in KeptPositions : j <= i })] = loaded[i]
    /\ \A i \in DOMAIN loaded :
         loaded[i].name = "update-events" => i \in KeptPositions
    /\ filterRuns[k] = filterRuns[1]

\* C23 witness: an excluded tool, then twice the same tool whose name
\* contains an excluded name, were loaded, and two runs of init_tools both
\* returned the latter two.
C23_Witness ==
  /\ Len(loaded) = 3 /\ Len(filterRuns) = 2
  /\ loaded[1].name = "update-event"
  /\ loaded[2].name = "update-events" /\ loaded[3] = loaded[2]
  /\ filterRuns[1] = << loaded[2], loaded[3] >>
  /\ filterRuns[2] = filterRuns[1]

\* C24: when get_tools returned an empty list, /query/stream answers with
\* status 503 and starts no agent run.
C24_EmptyToolsAnswered503 ==
  (streamStatus > 0 /\ filterRuns[1] = << >>) =>
    (streamStatus = 503 /\ agentRuns = 0)

(***************************************************************************)
(* The user type of message_app.py and quiz.py (SpecQuiz).                 *)
(***************************************************************************)
\* str.lower() of an answer.
lower(c) == IF c = "Y" THEN "y" ELSE c

\* quiz.py, ask_user_questions: the type for the three answers.
ask_user_questions(a1, a2, a3) ==
  LET q1 == lower(a1)
      q2 == lower(a2)
      q3 == lower(a3)
  IN IF q1 = "y" /\ q2 # "y" THEN "positive"
     ELSE IF q2 = "y" THEN "harsh"
     ELSE IF q3 = "y" THEN "logical"
     ELSE "positive"

\* A rule that lets positive win over harsh.
determine_user_type_positive_first(positive, harsh, logical) ==
  IF positive THEN Some("positive")
  ELSE IF harsh THEN Some("harsh")
  ELSE IF logical THEN Some("logical")
  ELSE Some("positive")

\* message_app.py, determine_user_type: the value returned, never None.
determine_user_type(positive, harsh, logical) ==
  IF positive /\ ~harsh THEN Some("positive")
  ELSE IF harsh THEN Some("harsh")
  ELSE IF logical THEN Some("logical")
  ELSE Some("positive")

\* user_name of a request: empty, blank, a name, a name after a blank.
UserNames == { << >>, << " " >>, << "takeshi" >>, << " ", "takeshi" >> }

\* No request and no quiz.
QuizIdle ==
  /\ mreq = None
  /\ qin = None
  /\ user_type = None
  /\ quiz_type = None
  /\ msgStatus = -1
  /\ msgDetail = "none"

\* A MessageRequest has arrived, and a user sits before the quiz.
QuizInit ==
  /\ mreq \in { Some(r) : r \in [positive : BOOLEAN, harsh : BOOLEAN,
                                logical : BOOLEAN, user_name : UserNames] }
  /\ qin \in { Some(a) : a \in [q1 : {"y", "Y", "n"}, q2 : {"y", "Y", "n"},
                               q3 : {"y", "Y", "n"}] }
  /\ user_type = None
  /\ quiz_type = None
  /\ msgStatus = 0
  /\ msgDetail = "none"

\* POST /generate-message: 400 for a blank user_name; else the user type,
\* 400 were it None; else generate_message, whose exception is answered
\* with 500.
GenerateUserMessage ==
  /\ msgStatus = 0
  /\ LET r == Val(mreq) IN
       IF strip(r.user_name) = << >>
         THEN /\ msgStatus' = 400
              /\ msgDetail' = "user_name cannot be empty"
              /\ UNCHANGED user_type
         ELSE LET t == determine_user_type(r.positive, r.harsh, r.logical) IN
                IF t = None
                  THEN /\ msgStatus' = 400
                       /\ msgDetail' = "Invalid user type combination"
                       /\ UNCHANGED user_type
                  ELSE /\ user_type' = t
                       /\ \/ msgStatus' = 200 /\ msgDetail' = "message"
                          \/ msgStatus' = 500 /\ msgDetail' = "Failed to generate message"
  /\ UNCHANGED << mreq, qin, quiz_type >>
  /\ UNCHANGED notQuizVars

\* quiz.py run to the end of ask_user_questions.
AskUserQuestions ==
  /\ msgStatus >= 0
  /\ quiz_type = None
  /\ quiz_type' = Some(ask_user_questions(Val(qin).q1, Val(qin).q2, Val(qin).q3))
  /\ UNCHANGED << mreq, qin, user_type, msgStatus, msgDetail >>
  /\ UNCHANGED notQuizVars

QuizNext ==
  \/ GenerateUserMessage
  \/ AskUserQuestions

\* The answer quiz.py reads for a flag of the request.
AnswerOf(b) == IF b THEN "y" ELSE "n"

\* C28: for every combination of positive, harsh and logical,
\* determine_user_type returns what quiz.py's rule returns for the answers
\* (q1 == y, q2 == y, q3 == y), one of positive, harsh, logical and never
\* None; the request is never answered with the 400 of an invalid
\* combination, and a quiz run with the same answers ends with the same type.
C28_UserTypeAgreesWithQuiz ==
  mreq # None =>
    LET r == Val(mreq)
        t == determine_user_type(r.positive, r.harsh, r.logical)
    IN /\ t # None
       /\ Val(t) \in { "positive", "harsh", "logical" }
       /\ Val(t) = ask_user_questions(AnswerOf(r.positive), AnswerOf(r.harsh),
                                      AnswerOf(r.logical))
       /\ msgDetail # "Invalid user type combination"
       /\ user_type # None => user_type = t
       /\ ( /\ user_type # None /\ quiz_type # None
            /\ (lower(Val(qin).q1) = "y") = r.positive
            /\ (lower(Val(qin).q2) = "y") = r.harsh
            /\ (lower(Val(qin).q3) = "y") = r.logical )
          => quiz_type = user_type

\* C28 witness: positive and harsh are both set, the request was answered
\* with the type harsh, and the quiz answered Y, y, n ended with harsh too.
C28_Witness ==
  /\ mreq # None /\ Val(mreq).positive /\ Val(mreq).harsh /\ ~Val(mreq).logical
  /\ msgStatus = 200 /\ user_type = Some("harsh")
  /\ Val(qin).q1 = "Y" /\ Val(qin).q2 = "y" /\ Val(qin).q3 = "n"
  /\ quiz_type = Some("harsh")

InitApp == AppInit /\ MainIdle /\ LoopIdle /\ ParseIdle /\ FilterIdle /\ QuizIdle

InitMain == AppIdle /\ MainInit /\ LoopIdle /\ ParseIdle /\ FilterIdle /\ QuizIdle

InitLoop == AppIdle /\ MainIdle /\ LoopInit /\ ParseIdle /\ FilterIdle /\ QuizIdle

InitParse == AppIdle /\ MainIdle /\ LoopIdle /\ ParseInit /\ FilterIdle /\ QuizIdle

SpecParse == InitParse /\ [][ParseNext]_vars

InitFilter ==
  AppIdle /\ MainIdle /\ LoopIdle /\ ParseIdle /\ FilterInit /\ QuizIdle

SpecFilter == InitFilter /\ [][FilterNext]_vars

InitQuiz ==
  AppIdle /\ MainIdle /\ LoopIdle /\ ParseIdle /\ FilterIdle /\ QuizInit

SpecQuiz == InitQuiz /\ [][QuizNext]_vars

SpecLoop == InitLoop /\ [][LoopNext]_vars

InitAgent == AppIdle /\ MainIdle /\ AgentInit /\ ParseIdle /\ FilterIdle /\ QuizIdle

SpecAgent == InitAgent /\ [][AgentNext]_vars

\* The event loop keeps running the query: a step that can be taken is taken.
SpecAgentFair == SpecAgent /\ WF_vars(AgentNext)

SpecApp == InitApp /\ [][AppNext]_vars

SpecMain == InitMain /\ [][MainNext]_vars

====
